---- MODULE Spec2Model ----
(***************************************************************************)
(* Model of the fragmentation + annotation pipeline of BrokenAssets:       *)
(*   - shatterMesh          (src/services/shatterEngine.ts)                *)
(*   - the Viewer's shatter / re-shatter / reset / pose / projection code  *)
(*     (src/unnamed/part_000, the ZIP revision of src/components/Viewer.tsx)*)
(*                                                                         *)
(* Numbers.  Mesh coordinates are integers.  A Math.random() result is a   *)
(* number of halves (0 = 0.0, 1 = 0.5).  A force is a number of            *)
(* 1/ForceDen.  A unit vector v/|v| is kept as the pair (v, |v|^2), and a  *)
(* position as  lin/ForceDen + (coef/ForceDen) * dir  with lin an integer  *)
(* vector and dir such a unit vector, so that nothing is rounded.          *)
(***************************************************************************)
EXTENDS Integers, Sequences, FiniteSets, TLC

\* ------------------------------------------------------------------ bounds
MaxTris  == 4      \* triangles of an input mesh
MaxFrags == 2      \* fragmentCount
ForceDen == 2      \* forces are 0/ForceDen .. ForceDen/ForceDen
MaxShatters == 2   \* runs of shatterMesh in one Viewer
MaxUploads == 2    \* accepted uploads in one Viewer

VARIABLES
  call,            \* shatterMesh under test: its arguments and what it draws
  buckets,         \* its local array `fragments` once the triangles are assigned
  results,         \* what it returned
  pc,              \* "start" before the call, "done" after it
  settings,        \* the Viewer's settings.current (the fields modelled)
  fragmentsRef,    \* fragmentsRef.current
  originalVisible, \* originalGroup.visible
  lastUpdate,      \* the arguments and mode of the last updateTransformations
                   \* over a non-empty fragment set, <<>> when there was none
  objects,         \* which mesh objects the Viewer holds: the identity of each
                   \* fragmentsRef.current[k].mesh, fragmentGroup.children, and
                   \* what the last of performShatter, performReShatter and
                   \* resetModel did to which object
  view,            \* what is projected: the fragments' world boxes, the camera,
                   \* settings.current.showBBoxes2D
  batch,           \* generateDataset: isGenerating, n, the sample index, the await,
                   \* the archive's files and the record of the steps done
  boxes2D,         \* the React state boxes2D
  yoloLines,       \* the lines of the sample's label file, <<>> before it is written
  seen             \* the camera the last overlay frame / label file was computed
                   \* with, <<>> when there is none

shatterVars == <<call, buckets, results, pc>>
viewerVars == <<settings, fragmentsRef, originalVisible, lastUpdate, objects>>
projVars == <<view, batch, boxes2D, yoloLines, seen>>
vars == <<call, buckets, results, pc, settings, fragmentsRef, originalVisible, lastUpdate,
          objects, view, batch, boxes2D, yoloLines, seen>>

\* ----------------------------------------------------------------- vectors
Zero3 == <<0, 0, 0>>
VAdd(a, b) == <<a[1] + b[1], a[2] + b[2], a[3] + b[3]>>
VSub(a, b) == <<a[1] - b[1], a[2] - b[2], a[3] - b[3]>>
VScale(a, k) == <<a[1] * k, a[2] * k, a[3] * k>>
Dot(a, b) == a[1] * b[1] + a[2] * b[2] + a[3] * b[3]

SetMin(S) == CHOOSE x \in S : \A y \in S : x <= y
SetMax(S) == CHOOSE x \in S : \A y \in S : x >= y

\* THREE.Vector3.normalize(): divideScalar(length() || 1).  The result is
\* num / sqrt(den2); the zero vector stays the zero vector (den2 = 1).
Normalize(v) == [num |-> v, den2 |-> IF Dot(v, v) = 0 THEN 1 ELSE Dot(v, v)]
NoDir == Normalize(Zero3)
IsUnit(d) == Dot(d.num, d.num) = d.den2

\* A position lin/ForceDen + (coef/ForceDen) * dir.
Pos(v) == [lin |-> VScale(v, ForceDen), coef |-> 0, dir |-> NoDir]
\* p + d * k, for p without a direction part: Vector3.add(d.multiplyScalar(k)),
\* k given in 1/ForceDen.
AddScaled(p, d, kNum) ==
  IF kNum = 0 \/ d.num = Zero3
    THEN p
    ELSE [lin |-> p.lin, coef |-> kNum, dir |-> d]
\* Vector3.lerp: a + (b - a) * alpha, alpha = alphaNum/ForceDen.  a and b are
\* rest/target positions: integer vectors, b possibly with a direction part of
\* integer length, so the divisions by ForceDen below are exact.
Lerp(a, b, alphaNum) ==
  LET d    == VSub(b.lin, a.lin)
      step == <<d[1] \div ForceDen, d[2] \div ForceDen, d[3] \div ForceDen>>
      coef == (b.coef \div ForceDen) * alphaNum
  IN  [lin  |-> VAdd(a.lin, VScale(step, alphaNum)),
       coef |-> coef,
       dir  |-> IF coef = 0 THEN NoDir ELSE b.dir]

\* ------------------------------------------------------------ random source
\* One draw of three Math.random() values, each in halves.
RandPool == << <<0, 0, 0>>, <<1, 1, 1>>, <<1, 0, 0>> >>
RandTriple(k) == RandPool[(k % Len(RandPool)) + 1]
\* THREE.MathUtils.randFloat(low, high) = low + Math.random() * (high - low);
\* u is the Math.random() value in halves (the ranges used are even).
RandFloat(low, high, u) == low + (u * (high - low)) \div 2

\* -------------------------------------------------------------------- Box3
EmptyBox == [empty |-> TRUE, min |-> Zero3, max |-> Zero3]
AxisVals(positions, a) ==
  { positions[3 * (i - 1) + a] : i \in 1..(Len(positions) \div 3) }
\* BufferGeometry.computeBoundingBox(): the box of the position attribute.
ComputeBoundingBox(positions) ==
  IF Len(positions) < 3
    THEN EmptyBox
    ELSE [empty |-> FALSE,
          min |-> <<SetMin(AxisVals(positions, 1)), SetMin(AxisVals(positions, 2)),
                    SetMin(AxisVals(positions, 3))>>,
          max |-> <<SetMax(AxisVals(positions, 1)), SetMax(AxisVals(positions, 2)),
                    SetMax(AxisVals(positions, 3))>>]
\* Box3.getCenter(): (0,0,0) for an empty box, else (min + max) / 2.
GetCenter(box) ==
  IF box.empty
    THEN Zero3
    ELSE <<(box.min[1] + box.max[1]) \div 2, (box.min[2] + box.max[2]) \div 2,
           (box.min[3] + box.max[3]) \div 2>>
\* A point drawn inside a box, one randFloat per axis.
RandPoint(box, u) ==
  <<RandFloat(box.min[1], box.max[1], u[1]), RandFloat(box.min[2], box.max[2], u[2]),
    RandFloat(box.min[3], box.max[3], u[3])>>

\* ------------------------------------------------------------- shatterMesh
\* Vertex k (1..3) of triangle i (1..triangleCount) of a flat position array.
Vertex(positions, i, k) ==
  LET o == 9 * (i - 1) + 3 * (k - 1)
  IN  <<positions[o + 1], positions[o + 2], positions[o + 3]>>
\* Three times triangleCentroid (the code divides the sums by 3).
TriangleCentroid3(positions, i) ==
  VAdd(VAdd(Vertex(positions, i, 1), Vertex(positions, i, 2)), Vertex(positions, i, 3))
\* Nine times triangleCentroid.distanceToSquared(seed).
DistSq9(c3, seed) ==
  LET d == VSub(c3, VScale(seed, 3)) IN Dot(d, d)

\* if (distSq < minDist); minDist is <<>> while it is Infinity.
Closer_le(distSq, minDist) == minDist = <<>> \/ distSq <= minDist[1]
Closer(distSq, minDist) == minDist = <<>> \/ distSq < minDist[1]

\* The scan over the seeds, lines 59-67; seed indices are 1-based here.
RECURSIVE ScanSeeds(_, _, _, _, _, _)
ScanSeeds(c3, seeds, fragmentCount, s, closestSeedIndex, minDist) ==
  IF s > fragmentCount
    THEN closestSeedIndex
    ELSE LET distSq == DistSq9(c3, seeds[s])
         IN  IF Closer(distSq, minDist)
               THEN ScanSeeds(c3, seeds, fragmentCount, s + 1, s, <<distSq>>)
               ELSE ScanSeeds(c3, seeds, fragmentCount, s + 1, closestSeedIndex, minDist)
ClosestSeedIndex(c3, seeds, fragmentCount) ==
  ScanSeeds(c3, seeds, fragmentCount, 1, 1, <<>>)

\* The seeds drawn in the mesh's bounding box, lines 30-37.
Seeds(bbox, fragmentCount, seedDraws) ==
  [s \in 1..fragmentCount |-> RandPoint(bbox, seedDraws[s])]

\* Lines 69-73: the nine coordinates and the three points of triangle i are
\* pushed to bucket c, and to no other.
PushTriangle_dup(fragments, c, positions, i) ==
  [s \in DOMAIN fragments |->
     IF s = c \/ s = 1
       THEN [positions |-> fragments[s].positions \o SubSeq(positions, 9 * (i - 1) + 1, 9 * i),
             points    |-> fragments[s].points \o
                             <<Vertex(positions, i, 1), Vertex(positions, i, 2),
                               Vertex(positions, i, 3)>>]
       ELSE fragments[s]]
PushTriangle(fragments, c, positions, i) ==
  [fragments EXCEPT
     ![c] = [positions |-> fragments[c].positions \o SubSeq(positions, 9 * (i - 1) + 1, 9 * i),
             points    |-> fragments[c].points \o
                             <<Vertex(positions, i, 1), Vertex(positions, i, 2),
                               Vertex(positions, i, 3)>>]]

\* The buckets (the local array `fragments`) after the first i triangles,
\* lines 39-74.
RECURSIVE Buckets(_, _, _, _)
Buckets(positions, seeds, fragmentCount, i) ==
  IF i = 0
    THEN [s \in 1..fragmentCount |-> [positions |-> <<>>, points |-> <<>>]]
    ELSE PushTriangle(Buckets(positions, seeds, fragmentCount, i - 1),
                      ClosestSeedIndex(TriangleCentroid3(positions, i), seeds, fragmentCount),
                      positions, i)

\* The point list without its repetitions, in order of first appearance.
RECURSIVE Dedup(_)
Dedup(points) ==
  IF points = <<>>
    THEN <<>>
    ELSE LET rest == Dedup(SubSeq(points, 1, Len(points) - 1))
             last == points[Len(points)]
         IN  IF \E k \in 1..Len(rest) : rest[k] = last THEN rest ELSE Append(rest, last)
RECURSIVE Flatten(_)
Flatten(points) ==
  IF points = <<>> THEN <<>> ELSE points[1] \o Flatten(Tail(points))

\* new ConvexGeometry(frag.points).  The mesh coordinates of the model are
\* corners of a cube, so every distinct point is a vertex of the hull; the
\* position attribute of the hull is kept as the list of its vertices.
ConvexGeometry(points) == [kind |-> "hull", position |-> Flatten(Dedup(points))]
\* BufferGeometry with position = Float32BufferAttribute(frag.positions, 3).
ShellGeometry_dedup(frag) == [kind |-> "shell", position |-> Flatten(Dedup(frag.points))]
ShellGeometry(frag) == [kind |-> "shell", position |-> frag.positions]

\* Lines 82-97.  hullThrows: whether ConvexGeometry throws for this bucket.
FragGeometry_nocatch(frag, makeSolid, hullThrows) ==
  IF makeSolid
    THEN IF hullThrows THEN [kind |-> "throw", position |-> <<>>]
                       ELSE ConvexGeometry(frag.points)
    ELSE ShellGeometry(frag)
FragGeometry(frag, makeSolid, hullThrows) ==
  IF makeSolid
    THEN IF hullThrows THEN ShellGeometry(frag) ELSE ConvexGeometry(frag.points)
    ELSE ShellGeometry(frag)

\* No bucket is left out.
Dropped_never(frag) == FALSE
\* Line 80.
Dropped(frag) == Len(frag.points) < 4

\* An orientation is a spin (a turn of `angle` about `axis`) applied on top of
\* a rest turn, the rest turns being quarter turns about one axis.  An Euler
\* keeps the rest turn in -1..2 (as read back from a quaternion), a Quaternion
\* in 0..3.  Quaternion.setFromEuler and Euler.setFromQuaternion:
NoSpin == [axis |-> NoDir, angle |-> 0]
Euler(turn) == [turn |-> turn, spin |-> NoSpin]
SetFromEuler(e) == [spin |-> e.spin, rest |-> e.turn % 4]
SetFromQuaternion(q) == [turn |-> IF q.rest = 3 THEN -1 ELSE q.rest, spin |-> q.spin]
\* Quaternion.setFromAxisAngle(axis, angle): (axis * sin(angle/2), cos(angle/2)),
\* the identity for angle 0; angle in 1/ForceDen radians.
SetFromAxisAngle(axis, angle) ==
  [spin |-> IF angle = 0 \/ axis.num = Zero3 THEN NoSpin ELSE [axis |-> axis, angle |-> angle],
   rest |-> 0]
\* q.multiply(o) for q a spin and o a rest turn.
Multiply(q, o) == [spin |-> q.spin, rest |-> (q.rest + o.rest) % 4]

\* Box3.setFromCenterAndSize(center, size).
SetFromCenterAndSize(center, size) ==
  [empty |-> FALSE,
   min |-> <<center[1] - size[1] \div 2, center[2] - size[2] \div 2, center[3] - size[3] \div 2>>,
   max |-> <<center[1] + size[1] \div 2, center[2] + size[2] \div 2, center[3] + size[3] \div 2>>]

\* (Math.random() - 0.5) three times, as a direction: a draw of 0.5 three
\* times (the zero vector) is left out.
AxisPool == << <<0, 0, 0>>, <<1, 0, 0>>, <<0, 1, 1>> >>
AxisDraw(k) == LET u == AxisPool[(k % Len(AxisPool)) + 1]
               IN  <<u[1] - 1, u[2] - 1, u[3] - 1>>

\* Lines 107-109.
Direction(fragCentroid, meshCenter) == Normalize(VSub(fragCentroid, meshCenter))

\* Lines 111-120.  volumeBounds is <<>> (undefined) or <<box>>.
TargetPos(volumeBounds, position, direction, u) ==
  IF volumeBounds # <<>>
    THEN Pos(RandPoint(volumeBounds[1], u))
    ELSE AddScaled(position, direction, 5 * ForceDen)

\* Lines 82-130 for the bucket of seed s: the FragmentData pushed to results.
\* seedIndex is not a field of the code's FragmentData: it records the bucket
\* the fragment was built from.
BuildFragment(frag, s, mesh, meshCenter, volumeBounds, makeSolid, hullThrows, r0) ==
  LET geo          == FragGeometry(frag, makeSolid, hullThrows)
      boundingBox  == ComputeBoundingBox(geo.position)
      fragCentroid == GetCenter(boundingBox)
      direction    == Direction(fragCentroid, meshCenter)
      position     == Pos(mesh.position)
  IN  [mesh |-> [geometry    |-> [kind |-> geo.kind, position |-> geo.position,
                                  boundingBox |-> boundingBox],
                 position    |-> position,
                 rotation    |-> mesh.rotation,
                 quaternion  |-> SetFromEuler(mesh.rotation),
                 scale       |-> mesh.scale],
       centroid             |-> fragCentroid,
       direction            |-> direction,
       originalPosition     |-> position,
       targetVolumePosition |-> TargetPos(volumeBounds, position, direction, RandTriple(r0 + s)),
       originalRotation     |-> mesh.rotation,
       rotationAxis         |-> Normalize(AxisDraw(r0 + s)),
       seedIndex            |-> s]

\* fragments.forEach(...), lines 79-131, over the buckets s..fragmentCount.
RECURSIVE BuildResults(_, _, _, _, _, _, _, _)
BuildResults(fragments, s, mesh, meshCenter, volumeBounds, makeSolid, hullThrows, r0) ==
  IF s > Len(fragments)
    THEN <<>>
    ELSE LET rest == BuildResults(fragments, s + 1, mesh, meshCenter, volumeBounds,
                                  makeSolid, hullThrows, r0)
         IN  IF Dropped(fragments[s])
               THEN rest
               ELSE <<BuildFragment(fragments[s], s, mesh, meshCenter, volumeBounds,
                                    makeSolid, s \in hullThrows, r0)>> \o rest

\* The objects shatterMesh is handed: the mesh and what hangs on it.
Input(name) == [made |-> "input", of |-> name]
InputObjects ==
  { Input(name) : name \in {"mesh", "mesh.geometry", "mesh.material", "mesh.position",
                            "mesh.rotation", "mesh.scale"} }
\* The function works on the object it was handed, not on a copy.
Clone_alias(obj) == obj
\* .clone(), lines 16 and 77: a new object with the same content.
Clone(obj) == [made |-> "clone", of |-> obj.of]
\* .toNonIndexed(), line 17: a new geometry, or the same one when it has no index.
ToNonIndexed(obj) == {obj, [made |-> "toNonIndexed", of |-> obj.of]}
\* The objects a call of shatterMesh writes to: the working geometries
\* (computeBoundingBox, line 24; dispose, lines 133-134), the material copy
\* the fragments are given (line 102) and, per fragment built, the new mesh
\* whose position, rotation and scale are copied into (lines 103-105).  The
\* call that returns at line 19 has written nothing.
Written(mesh, fragments) ==
  IF mesh.geometry = <<-1>>
    THEN {}
    ELSE LET originalGeometry == Clone(Input("mesh.geometry"))
             baseMaterial     == Clone(Input("mesh.material"))
             fragmentMesh     == [made |-> "new", of |-> "fragmentMesh"]
         IN  {originalGeometry} \cup ToNonIndexed(originalGeometry)
               \cup (IF fragments = <<>> THEN {} ELSE {baseMaterial, fragmentMesh})

\* shatterMesh, lines 10-136.  rnd = [seeds, r0, hullThrows] holds what the
\* call draws: the seed draws, the offset of its target/axis draws, and the
\* buckets for which ConvexGeometry throws.  The value is the list returned,
\* or "threw" when an exception leaves the function.
NoPosition == <<-1>>
ShatterBuckets(mesh, fragmentCount, rnd) ==
  Buckets(mesh.geometry, Seeds(ComputeBoundingBox(mesh.geometry), fragmentCount, rnd.seeds),
          fragmentCount, Len(mesh.geometry) \div 9)
ShatterMesh(mesh, fragmentCount, volumeBounds, makeSolid, rnd) ==
  IF mesh.geometry = NoPosition
    THEN [threw |-> FALSE, fragments |-> <<>>]
    ELSE LET built == BuildResults(ShatterBuckets(mesh, fragmentCount, rnd), 1, mesh,
                                   GetCenter(ComputeBoundingBox(mesh.geometry)),
                                   volumeBounds, makeSolid, rnd.hullThrows, rnd.r0)
         IN  IF \E k \in 1..Len(built) : built[k].mesh.geometry.kind = "throw"
               THEN [threw |-> TRUE, fragments |-> <<>>]
               ELSE [threw |-> FALSE, fragments |-> built]

\* ------------------------------------------------ shatterMesh on its own
\* The triangles the input meshes are made of: corners of the cube [0,4]^3.
TrianglePool ==
  << <<0, 0, 0,  4, 0, 0,  0, 4, 0>>,
     <<4, 4, 4,  4, 0, 4,  4, 4, 0>> >>
RECURSIVE Concat(_, _)
Concat(pick, k) == IF k = 0 THEN <<>> ELSE Concat(pick, k - 1) \o TrianglePool[pick[k]]
Geometries ==
  { Concat(pick, Len(pick)) :
      pick \in UNION { [1..n -> 1..Len(TrianglePool)] : n \in 0..MaxTris } }
SourceMesh(geometry) ==
  [geometry |-> geometry, position |-> <<1, 0, 0>>, rotation |-> Euler(1), scale |-> <<1, 1, 1>>]
DefaultVolume == SetFromCenterAndSize(Zero3, <<6, 6, 6>>)
\* The cube [0,4]^3 as a mesh of twelve triangles, two to a face.
Cube ==
  <<0, 0, 0,  4, 0, 0,  0, 4, 0>> \o <<4, 4, 0,  0, 4, 0,  4, 0, 0>> \o
  <<0, 0, 4,  4, 0, 4,  0, 4, 4>> \o <<4, 4, 4,  4, 0, 4,  0, 4, 4>> \o
  <<0, 0, 0,  0, 4, 0,  0, 0, 4>> \o <<0, 4, 4,  0, 0, 4,  0, 4, 0>> \o
  <<4, 0, 0,  4, 4, 0,  4, 0, 4>> \o <<4, 4, 4,  4, 0, 4,  4, 4, 0>> \o
  <<0, 0, 0,  4, 0, 0,  0, 0, 4>> \o <<4, 0, 4,  0, 0, 4,  4, 0, 0>> \o
  <<0, 4, 0,  4, 4, 0,  0, 4, 4>> \o <<4, 4, 4,  0, 4, 4,  4, 4, 0>>
\* What the seeds of a call on the cube are drawn from: a seed can also fall
\* on the corners (4,4,4) and (4,0,0).
CubeDraws == RandPool \o << <<2, 2, 2>>, <<2, 0, 0>> >>
\* One call of shatterMesh: a mesh of geometry g, fragmentCount n, volumeBounds
\* v, makeSolid, and what the call draws (the seed draws sd, the buckets ht
\* whose hull fails).
Call(g, n, v, solid, sd, ht) ==
  [mesh |-> SourceMesh(g), fragmentCount |-> n, volumeBounds |-> v, makeSolid |-> solid,
   rnd |-> [seeds |-> [s \in 1..n |-> RandPool[sd[s]]], r0 |-> 0, hullThrows |-> ht]]

\* ConvexGeometry is only called in solid mode.  The calls are those on the
\* small meshes, and the cube shattered in three in solid mode.
InitShatter ==
  /\ \/ \E n \in 1..MaxFrags :
          \E g \in Geometries \cup {NoPosition}, v \in {<<>>, <<DefaultVolume>>},
             solid \in BOOLEAN, sd \in [1..n -> 1..Len(RandPool)], ht \in SUBSET (1..n) :
            /\ solid \/ ht = {}
            /\ call = Call(g, n, v, solid, sd, ht)
     \/ \E v \in {<<>>, <<DefaultVolume>>}, sd \in [1..3 -> 1..Len(CubeDraws)],
            ht \in SUBSET (1..3) :
          call = [Call(Cube, 3, v, TRUE, [s \in 1..3 |-> 1], ht)
                    EXCEPT !.rnd.seeds = [s \in 1..3 |-> CubeDraws[sd[s]]]]
  /\ buckets = <<>>
  /\ results = [threw |-> FALSE, fragments |-> <<>>, written |-> {}]
  /\ pc = "start"
  /\ settings = <<>> /\ fragmentsRef = <<>> /\ originalVisible = TRUE /\ lastUpdate = <<>>
  /\ objects = <<>>
  /\ view = <<>> /\ batch = <<>> /\ boxes2D = <<>> /\ yoloLines = <<>> /\ seen = <<>>

ShatterCall ==
  /\ pc = "start"
  /\ buckets' = IF call.mesh.geometry = NoPosition
                  THEN <<>>
                  ELSE ShatterBuckets(call.mesh, call.fragmentCount, call.rnd)
  /\ results' = LET returned == ShatterMesh(call.mesh, call.fragmentCount, call.volumeBounds,
                                            call.makeSolid, call.rnd)
                 IN  [threw |-> returned.threw, fragments |-> returned.fragments,
                      written |-> Written(call.mesh, returned.fragments)]
  /\ pc' = "done"
  /\ UNCHANGED <<call, viewerVars, projVars>>

NextShatter == ShatterCall
SpecShatter == InitShatter /\ [][NextShatter]_vars
\* ------------------------------------------------------------- the Viewer
\* The model in originalGroup: one mesh of four triangles, placed off the
\* origin and turned back by a quarter turn.
ViewerMesh ==
  [geometry |-> TrianglePool[1] \o TrianglePool[1] \o TrianglePool[2] \o TrianglePool[2],
   position |-> <<1, 0, 0>>, rotation |-> Euler(-1), scale |-> <<1, 1, 1>>]
\* A sparser model: one mesh of two triangles, placed and turned alike.
SparseMesh ==
  [geometry |-> TrianglePool[1] \o TrianglePool[2],
   position |-> <<1, 0, 0>>, rotation |-> Euler(-1), scale |-> <<1, 1, 1>>]
\* The mesh of gltf.scene for each model file.
Models == [full |-> ViewerMesh, sparse |-> SparseMesh]
\* The child of originalGroup once a first model file has been loaded.
LoadedModel == [upload |-> 0, mesh |-> "full"]
\* The values the sliders and check boxes of the control panel are given.
Forces == 0..ForceDen
RotForces == {0, 1}
VolumeSizes == {2, 6}

\* settings.current after construction, lines 44-91 (fragmentCount, 30 in the
\* code, is the largest count of the model; explosionForce, 0.2, the smallest
\* non-zero force).
InitSettings ==
  [fragmentCount |-> MaxFrags, explosionForce |-> 1, rotationForce |-> 1,
   solidFragments |-> TRUE, useVolume |-> TRUE, volume |-> <<6, 6, 6>>, shattered |-> FALSE]

\* force * 15 * rotForce, line 524, in 1/ForceDen radians.
SpinAngle_noforce(force, rotForce) == ForceDen * 15 * rotForce
SpinAngle(force, rotForce) == force * 15 * rotForce

\* Lines 519-523: the position of fragment f at `force`.
PosedPosition(f, force, useVolume) ==
  IF useVolume
    THEN Lerp(f.originalPosition, f.targetVolumePosition, force)
    ELSE AddScaled(f.originalPosition, f.direction, force * 12)

\* The fragments are left as shatterMesh built them.
UpdateTransformations_skip(frags, force, rotForce, useVolume) == frags
\* updateTransformations(force, rotForce), lines 517-529, over `frags`.
UpdateTransformations(frags, force, rotForce, useVolume) ==
  [k \in 1..Len(frags) |->
     LET f            == frags[k]
         q            == SetFromAxisAngle(f.rotationAxis, SpinAngle(force, rotForce))
         originalQuat == SetFromEuler(f.originalRotation)
         quaternion   == Multiply(q, originalQuat)
     IN  [f EXCEPT !.mesh.position   = PosedPosition(f, force, useVolume),
                   !.mesh.quaternion = quaternion,
                   !.mesh.rotation   = SetFromQuaternion(quaternion)]]

\* What one performShatter draws: the draws of its shatterMesh call.  The
\* first j seeds are drawn at the corner of the bounding box and the others at
\* its centre, and ConvexGeometry throws for every bucket or for none.
Draws(sett) ==
  { [seeds |-> [s \in 1..sett.fragmentCount |-> IF s <= j THEN RandPool[1] ELSE RandPool[2]],
     r0 |-> 0, hullThrows |-> ht] :
      j \in 0..sett.fragmentCount,
      ht \in IF sett.solidFragments THEN {{}, 1..sett.fragmentCount} ELSE {{}} }
\* frags, lines 400-405: shatterMesh on one mesh of originalGroup.
NewFragments(mesh, sett, rnd) ==
  ShatterMesh(mesh, sett.fragmentCount,
              IF sett.useVolume THEN <<SetFromCenterAndSize(Zero3, sett.volume)>> ELSE <<>>,
              sett.solidFragments, rnd).fragments
\* newFragments, lines 396-408: originalGroup is traversed and the fragments
\* of every mesh are pushed, each shatterMesh call with draws of its own.
RECURSIVE Traverse(_, _, _, _)
Traverse(group, k, sett, rnds) ==
  IF k > Len(group) THEN <<>>
  ELSE NewFragments(Models[group[k].mesh], sett, rnds[k]) \o Traverse(group, k + 1, sett, rnds)
Evaluation(sett) ==
  <<[force |-> sett.explosionForce, rotForce |-> sett.rotationForce,
     useVolume |-> sett.useVolume, volume |-> sett.volume]>>

\* The g-th run of shatterMesh in the Viewer makes n new THREE.Mesh objects,
\* shatterEngine.ts line 102: objects no earlier run has made.
NewIds(g, n) == [k \in 1..n |-> [shatter |-> g, k |-> k]]
Op(op, ids) == [k \in 1..Len(ids) |-> [op |-> op, id |-> ids[k]]]
\* The old fragments are dropped without their geometry being disposed of.
Disposal_none(ids) == <<>>
\* Lines 474-486 (and 496-508): geometry.dispose() on every fragment of the
\* set, then every child of fragmentGroup is removed.
Disposal(ids) == Op("dispose", ids) \o Op("remove", ids)
\* Lines 391-408 and 461: the new meshes are built, then added to fragmentGroup.
Building(ids) == Op("build", ids) \o Op("add", ids)
NoObjects ==
  [shatters |-> 0, ids |-> <<>>, group |-> <<>>, handler |-> "none", events |-> <<>>,
   previous |-> <<>>, original |-> <<>>, from |-> <<>>, loads |-> {}, uploads |-> 0]

InitViewer ==
  /\ settings = InitSettings
  /\ fragmentsRef = <<>>
  /\ originalVisible = TRUE
  /\ lastUpdate = <<>>
  /\ objects = [NoObjects EXCEPT !.original = <<LoadedModel>>]
  /\ call = <<>> /\ buckets = <<>> /\ results = <<>> /\ pc = "viewer"
  /\ view = <<>> /\ batch = <<>> /\ boxes2D = <<>> /\ yoloLines = <<>> /\ seen = <<>>

\* performShatter, lines 388-471 (materials and box helpers left out).
PerformShatter ==
  /\ pc = "viewer"
  /\ ~settings.shattered
  /\ objects.shatters < MaxShatters
  /\ \E rnds \in [1..Len(objects.original) -> Draws(settings)] :
       LET newFragments == Traverse(objects.original, 1, settings, rnds)
           ids          == NewIds(objects.shatters + 1, Len(newFragments))
       IN  IF Len(newFragments) > 0
             THEN /\ fragmentsRef' = UpdateTransformations(newFragments, settings.explosionForce,
                                       settings.rotationForce, settings.useVolume)
                  /\ originalVisible' = FALSE
                  /\ settings' = [settings EXCEPT !.shattered = TRUE]
                  /\ lastUpdate' = Evaluation(settings)
                  /\ objects' = [objects EXCEPT !.shatters = @ + 1, !.ids = ids,
                                                !.group = @ \o ids,
                                                !.handler = "performShatter",
                                                !.events = Building(ids),
                                                !.from = objects.original]
             ELSE UNCHANGED viewerVars
  /\ UNCHANGED <<shatterVars, projVars>>

\* performReShatter, lines 473-493: the old set is disposed of and emptied,
\* shattered is cleared, then performShatter runs.
PerformReShatter ==
  /\ pc = "viewer"
  /\ objects.shatters < MaxShatters
  /\ \E rnds \in [1..Len(objects.original) -> Draws(settings)] :
       LET newFragments == Traverse(objects.original, 1, settings, rnds)
           ids          == NewIds(objects.shatters + 1, Len(newFragments))
           emptied      == [objects EXCEPT !.shatters = @ + 1, !.ids = <<>>, !.group = <<>>,
                                           !.handler = "performReShatter",
                                           !.events = Disposal(objects.ids),
                                           !.previous = objects.ids, !.from = <<>>]
       IN  IF Len(newFragments) > 0
             THEN /\ fragmentsRef' = UpdateTransformations(newFragments, settings.explosionForce,
                                       settings.rotationForce, settings.useVolume)
                  /\ originalVisible' = FALSE
                  /\ settings' = [settings EXCEPT !.shattered = TRUE]
                  /\ lastUpdate' = Evaluation(settings)
                  /\ objects' = [emptied EXCEPT !.ids = ids, !.group = @ \o ids,
                                                !.events = @ \o Building(ids),
                                                !.from = objects.original]
             ELSE /\ fragmentsRef' = <<>>
                  /\ settings' = [settings EXCEPT !.shattered = FALSE]
                  /\ lastUpdate' = <<>>
                  /\ objects' = emptied
                  /\ UNCHANGED originalVisible
  /\ UNCHANGED <<shatterVars, projVars>>

\* resetModel, lines 495-515.
ResetModel ==
  /\ pc = "viewer"
  /\ fragmentsRef' = <<>>
  /\ originalVisible' = TRUE
  /\ settings' = [settings EXCEPT !.shattered = FALSE]
  /\ lastUpdate' = <<>>
  /\ objects' = [objects EXCEPT !.ids = <<>>, !.group = <<>>, !.handler = "resetModel",
                                !.events = Disposal(objects.ids), !.from = <<>>]
  /\ UNCHANGED <<shatterVars, projVars>>

\* The 'Scatter Intensity' slider, line 238.
SetExplosionForce ==
  /\ \E v \in Forces :
       /\ settings' = [settings EXCEPT !.explosionForce = v]
       /\ fragmentsRef' = UpdateTransformations(fragmentsRef, v, settings.rotationForce,
                                                 settings.useVolume)
       /\ lastUpdate' = IF fragmentsRef = <<>> THEN lastUpdate ELSE Evaluation(settings')
  /\ UNCHANGED <<originalVisible, objects, shatterVars, projVars>>

\* The 'Spin Velocity' slider, line 239.
SetRotationForce ==
  /\ \E v \in RotForces :
       /\ settings' = [settings EXCEPT !.rotationForce = v]
       /\ fragmentsRef' = UpdateTransformations(fragmentsRef, settings.explosionForce, v,
                                                 settings.useVolume)
       /\ lastUpdate' = IF fragmentsRef = <<>> THEN lastUpdate ELSE Evaluation(settings')
  /\ UNCHANGED <<originalVisible, objects, shatterVars, projVars>>

\* The 'Enabled' check box of the scatter volume, line 242.
SetUseVolume ==
  /\ settings' = [settings EXCEPT !.useVolume = ~settings.useVolume]
  /\ UNCHANGED <<fragmentsRef, originalVisible, lastUpdate, objects, shatterVars, projVars>>

\* The 'Width (X)' slider, line 243 (the Y and Z sliders are alike).
SetVolume ==
  /\ \E v \in VolumeSizes : settings' = [settings EXCEPT !.volume[1] = v]
  /\ UNCHANGED <<fragmentsRef, originalVisible, lastUpdate, objects, shatterVars, projVars>>

\* The 'Solid Geometry' check box, line 237.
SetSolidFragments ==
  /\ settings' = [settings EXCEPT !.solidFragments = ~settings.solidFragments]
  /\ UNCHANGED <<fragmentsRef, originalVisible, lastUpdate, objects, shatterVars, projVars>>

NextViewer ==
  \/ PerformShatter
  \/ PerformReShatter
  \/ ResetModel
  \/ SetExplosionForce
  \/ SetRotationForce
  \/ SetUseVolume
  \/ SetVolume
  \/ SetSolidFragments
SpecViewer == InitViewer /\ [][NextViewer]_vars

\* --------------------------------------------- uploads and the unmount
\* The files the 'UPLOAD ASSET' input is given, App.tsx lines 8-15.
Files ==
  { [ext |-> "glb", mesh |-> "full"], [ext |-> "gltf", mesh |-> "sparse"],
    [ext |-> "obj", mesh |-> "full"] }
\* App.tsx line 10: file.name.endsWith('.glb') || file.name.endsWith('.gltf').
Accepted(file) == file.ext \in {"glb", "gltf"}

\* The Viewer after construction: originalGroup is empty, line 175, and no
\* file has been given.
InitLifecycle ==
  /\ settings = InitSettings
  /\ fragmentsRef = <<>>
  /\ originalVisible = TRUE
  /\ lastUpdate = <<>>
  /\ objects = NoObjects
  /\ call = <<>> /\ buckets = <<>> /\ results = <<>> /\ pc = "viewer"
  /\ view = <<>> /\ batch = <<>> /\ boxes2D = <<>> /\ yoloLines = <<>> /\ seen = <<>>

\* handleFileChange, App.tsx lines 8-15, and for an accepted file the effect
\* of lines 605-611: settings.current.reset(), every child of originalGroup
\* removed, and the load of the file started.
Upload ==
  /\ pc = "viewer"
  /\ objects.uploads < MaxUploads
  /\ \E file \in Files :
       IF Accepted(file)
         THEN /\ fragmentsRef' = <<>>
              /\ originalVisible' = TRUE
              /\ settings' = [settings EXCEPT !.shattered = FALSE]
              /\ lastUpdate' = <<>>
              /\ objects' = [objects EXCEPT !.ids = <<>>, !.group = <<>>, !.handler = "upload",
                                            !.events = Disposal(objects.ids), !.from = <<>>,
                                            !.original = <<>>, !.uploads = @ + 1,
                                            !.loads = @ \cup {[upload |-> objects.uploads + 1,
                                                               mesh |-> file.mesh]}]
         ELSE UNCHANGED viewerVars
  /\ UNCHANGED <<shatterVars, projVars>>

\* The callback of loader.load, lines 611-621, for one of the loads under
\* way: the model is added to originalGroup.
LoadDone ==
  /\ \E l \in objects.loads :
       objects' = [objects EXCEPT !.loads = @ \ {l}, !.original = Append(@, l),
                                  !.handler = "load", !.events = <<>>]
  /\ UNCHANGED <<settings, fragmentsRef, originalVisible, lastUpdate, shatterVars, projVars>>

\* The cleanup of the mount effect, lines 597-602: the resize listener is
\* removed, the panel destroyed, the renderer and the environment texture
\* disposed of.
Unmount ==
  /\ pc = "viewer"
  /\ pc' = "unmounted"
  /\ objects' = [objects EXCEPT !.handler = "unmount", !.events = <<>>]
  /\ UNCHANGED <<settings, fragmentsRef, originalVisible, lastUpdate, call, buckets, results,
                 projVars>>

NextLifecycle ==
  \/ Upload
  \/ LoadDone
  \/ PerformShatter
  \/ PerformReShatter
  \/ ResetModel
  \/ Unmount
SpecLifecycle == InitLifecycle /\ [][NextLifecycle]_vars

\* ---------------------------------------------------------- the projection
\* Screen coordinates are exact fractions n/d, d > 0, in lowest terms.
RECURSIVE Gcd(_, _)
Gcd(a, b) == IF b = 0 THEN a ELSE Gcd(b, a % b)
Abs(x) == IF x < 0 THEN -x ELSE x
Frac(n, d) ==
  LET g == Gcd(Abs(n), Abs(d))
      s == IF d < 0 THEN -1 ELSE 1
  IN  [n |-> (s * n) \div g, d |-> (s * d) \div g]
FInt(k) == [n |-> k, d |-> 1]
FAdd(a, b) == Frac(a.n * b.d + b.n * a.d, a.d * b.d)
FSub(a, b) == Frac(a.n * b.d - b.n * a.d, a.d * b.d)
FHalf(a) == Frac(a.n, 2 * a.d)
FTimes(a, k) == Frac(a.n * k, a.d)
FLt(a, b) == a.n * b.d < b.n * a.d
FLe(a, b) == a.n * b.d <= b.n * a.d
\* Math.min, Math.max, Math.abs.
FMin(a, b) == IF FLt(b, a) THEN b ELSE a
FMax(a, b) == IF FLt(a, b) THEN b ELSE a
FAbs(a) == [n |-> Abs(a.n), d |-> a.d]
\* Number.prototype.toFixed(6) of q >= 0, as a number of millionths: the
\* nearest one, a half rounded up.
ToFixed6(q) ==
  LET a  == (q.n * 1000) \div q.d
      ra == (q.n * 1000) % q.d
      b  == (ra * 1000) \div q.d
      rb == (ra * 1000) % q.d
  IN  a * 1000 + b + (IF 2 * rb >= q.d THEN 1 ELSE 0)

\* window.innerWidth and window.innerHeight: a square window.
Viewport == [width |-> 800, height |-> 800]
\* Vector3.project(camera) for a camera on the z axis at distance cam from the
\* origin it looks at, with a field of view of 90 degrees (75 in the code):
\* x / w and y / w with w = cam - z.  p2 is the point in halves.
Project(p2, cam) ==
  [x |-> Frac(p2[1], 2 * cam - p2[3]), y |-> Frac(p2[2], 2 * cam - p2[3])]
\* The eight corners of a Box3 in the order of lines 329-334 and 548-553.
Corners(box) ==
  [k \in 1..8 |->
     VScale(<<IF k > 4 THEN box.max[1] ELSE box.min[1],
              IF (k - 1) % 4 >= 2 THEN box.max[2] ELSE box.min[2],
              IF k % 2 = 0 THEN box.max[3] ELSE box.min[3]>>, 2)]
\* Lines 336-341 and 555-560: the extent of the projected corners k..8, folded
\* into acc, which starts at min = 1 and max = -1.
InitExtent == [minX |-> FInt(1), minY |-> FInt(1), maxX |-> FInt(-1), maxY |-> FInt(-1)]
RECURSIVE FoldCorners(_, _, _, _)
FoldCorners(corners, k, cam, acc) ==
  IF k > Len(corners)
    THEN acc
    ELSE LET c == Project(corners[k], cam)
         IN  FoldCorners(corners, k + 1, cam,
                         [minX |-> FMin(acc.minX, c.x), maxX |-> FMax(acc.maxX, c.x),
                          minY |-> FMin(acc.minY, c.y), maxY |-> FMax(acc.maxY, c.y)])
ProjectedExtent(box, cam) == FoldCorners(Corners(box), 1, cam, InitExtent)

\* Line 546: the projected centre of the box is more than 1.2 off the middle
\* of the screen (getCenter is (min + max) / 2).
CentreOffScreen(box, cam) ==
  LET screenPos == Project(VAdd(box.min, box.max), cam)
  IN  FLt(Frac(6, 5), FAbs(screenPos.x)) \/ FLt(Frac(6, 5), FAbs(screenPos.y))
\* Line 565.
OverlayVisible_xonly(left, right, top, bottom, width, height) ==
  FLt(FInt(0), right) /\ FLt(left, FInt(width))
OverlayVisible(left, right, top, bottom, width, height) ==
  /\ FLt(FInt(0), right) /\ FLt(left, FInt(width))
  /\ FLt(FInt(0), bottom) /\ FLt(top, FInt(height))
\* Lines 541-573 for fragment i (from 0) with world box `box`: the Box2D
\* pushed, if any.  The label stands for `FRAG_i` (its confidence text, a
\* random number, is left out).
OverlayBox(box, i, cam, width, height) ==
  LET e      == ProjectedExtent(box, cam)
      left   == FTimes(FHalf(FAdd(e.minX, FInt(1))), width)
      right  == FTimes(FHalf(FAdd(e.maxX, FInt(1))), width)
      top    == FTimes(FHalf(FSub(FInt(1), e.maxY)), height)
      bottom == FTimes(FHalf(FSub(FInt(1), e.minY)), height)
  IN  IF CentreOffScreen(box, cam)
        THEN <<>>
        ELSE IF OverlayVisible(left, right, top, bottom, width, height)
               THEN <<[left |-> left, top |-> top, width |-> FSub(right, left),
                       height |-> FSub(bottom, top), label |-> i]>>
               ELSE <<>>
\* newBoxes, lines 538-574, for the fragments k.. of the scene.
RECURSIVE NewBoxes(_, _, _)
NewBoxes(scene, k, cam) ==
  IF k > Len(scene)
    THEN <<>>
    ELSE OverlayBox(scene[k], k - 1, cam, Viewport.width, Viewport.height)
           \o NewBoxes(scene, k + 1, cam)

\* Line 343.
LabelVisible(e) ==
  /\ FLt(FInt(-1), e.maxX) /\ FLt(e.minX, FInt(1))
  /\ FLt(FInt(-1), e.maxY) /\ FLt(e.minY, FInt(1))
\* The line of lines 349-353 without the clipping of lines 344-347.
YoloLine_unclipped(box, i, cam) ==
  LET e        == ProjectedExtent(box, cam)
      normMinX == FHalf(FAdd(e.minX, FInt(1)))
      normMaxX == FHalf(FAdd(e.maxX, FInt(1)))
      normMinY == FHalf(FSub(FInt(1), e.maxY))
      normMaxY == FHalf(FSub(FInt(1), e.minY))
      w        == FSub(normMaxX, normMinX)
      h        == FSub(normMaxY, normMinY)
      cx       == FAdd(normMinX, FHalf(w))
      cy       == FAdd(normMinY, FHalf(h))
  IN  IF LabelVisible(e)
        THEN <<[class |-> 0, cx |-> ToFixed6(cx), cy |-> ToFixed6(cy),
                w |-> ToFixed6(w), h |-> ToFixed6(h), frag |-> i]>>
        ELSE <<>>
\* The line of lines 344-353 with y measured upward from the bottom edge.
YoloLine_yup(box, i, cam) ==
  LET e        == ProjectedExtent(box, cam)
      normMinX == FMax(FInt(0), FHalf(FAdd(e.minX, FInt(1))))
      normMaxX == FMin(FInt(1), FHalf(FAdd(e.maxX, FInt(1))))
      normMinY == FMax(FInt(0), FHalf(FAdd(e.minY, FInt(1))))
      normMaxY == FMin(FInt(1), FHalf(FAdd(e.maxY, FInt(1))))
      w        == FSub(normMaxX, normMinX)
      h        == FSub(normMaxY, normMinY)
      cx       == FAdd(normMinX, FHalf(w))
      cy       == FAdd(normMinY, FHalf(h))
  IN  IF LabelVisible(e)
        THEN <<[class |-> 0, cx |-> ToFixed6(cx), cy |-> ToFixed6(cy),
                w |-> ToFixed6(w), h |-> ToFixed6(h), frag |-> i]>>
        ELSE <<>>
\* Lines 328-354 for fragment i (from 0): the line pushed, if any.  The four
\* numbers are in millionths, as toFixed(6) prints them; frag is not part of
\* the line: it records the fragment the line was written for.
YoloLine(box, i, cam) ==
  LET e        == ProjectedExtent(box, cam)
      normMinX == FMax(FInt(0), FHalf(FAdd(e.minX, FInt(1))))
      normMaxX == FMin(FInt(1), FHalf(FAdd(e.maxX, FInt(1))))
      normMinY == FMax(FInt(0), FHalf(FSub(FInt(1), e.maxY)))
      normMaxY == FMin(FInt(1), FHalf(FSub(FInt(1), e.minY)))
      w        == FSub(normMaxX, normMinX)
      h        == FSub(normMaxY, normMinY)
      cx       == FAdd(normMinX, FHalf(w))
      cy       == FAdd(normMinY, FHalf(h))
  IN  IF LabelVisible(e)
        THEN <<[class |-> 0, cx |-> ToFixed6(cx), cy |-> ToFixed6(cy),
                w |-> ToFixed6(w), h |-> ToFixed6(h), frag |-> i]>>
        ELSE <<>>
\* yoloLines, lines 326-355, for the fragments k.. of the scene.
RECURSIVE YoloLines(_, _, _)
YoloLines(scene, k, cam) ==
  IF k > Len(scene)
    THEN <<>>
    ELSE YoloLine(scene[k], k - 1, cam) \o YoloLines(scene, k + 1, cam)

\* The world boxes (Box3.setFromObject(f.mesh)) of the fragments shown: each
\* spans one of Ranges on x and on y, and one unit of depth.  Seen from a
\* distance of 20 the screen edge is at 20 on the near face of a box and at 19
\* on its far face.
Ranges ==
  { <<-25, -21>>, <<-25, -15>>, <<-25, 5>>, <<-5, 5>>, <<15, 25>>, <<21, 25>>, <<15, 40>> }
WorldBoxes ==
  { [empty |-> FALSE, min |-> <<x[1], y[1], 0>>, max |-> <<x[2], y[2], 1>>] :
      x \in Ranges, y \in Ranges }
MiddleBox == [empty |-> FALSE, min |-> <<-5, -5, 0>>, max |-> <<5, 5, 1>>]
\* The fragment sets: none, one fragment, or a fragment in the middle of the
\* screen followed by another one.
Scenes == {<<>>} \cup { <<b>> : b \in WorldBoxes } \cup { <<MiddleBox, b>> : b \in WorldBoxes }
\* The distances the camera is moved to, by OrbitControls and by line 298.
CamDistances == {20, 21}
\* settings.current.batchN.
BatchN == 2

\* One entry of the batch's record of what it has done: a step of
\* generateDataset and the sample index i it was done for.
Did(step, i) == [step |-> step, i |-> i]
\* The batch before generateDataset has ever run.
IdleBatch ==
  [isGenerating |-> FALSE, guiEnabled |-> TRUE, n |-> 0, i |-> 0, await |-> "none",
   randomizeCamera |-> FALSE, images |-> {}, labels |-> {}, failed |-> {}, log |-> <<>>]
\* Lines 286-304 for sample i, up to the suspension on loadRandomBackground:
\* performReShatter, the camera move when 'Random Viewpoint' is ticked, and
\* the first loader.load of loadRandomBackground, line 202.
BeginSample(b, i) ==
  [b EXCEPT !.i = i, !.await = "background",
            !.log = @ \o <<Did("performReShatter", i)>>
                      \o (IF b.randomizeCamera THEN <<Did("camera", i)>> ELSE <<>>)
                      \o <<Did("loadRandomBackground", i)>>]
\* Lines 305-320, once loadRandomBackground has set scene.background and
\* resolved: the lights, the render, and the request for the canvas's image.
Rendered(b) ==
  [b EXCEPT !.await = "capture",
            !.log = @ \o <<Did("background", b.i), Did("render", b.i)>>]

\* The Viewer with some fragment set on show: showBBoxes2D is on (line 51),
\* no batch is running (line 88), boxes2D is empty (line 41).
InitProject ==
  /\ view \in [scene : Scenes, cam : CamDistances, showBBoxes2D : {TRUE}]
  /\ batch = IdleBatch
  /\ boxes2D = <<>>
  /\ yoloLines = <<>>
  /\ seen = [frame |-> <<>>, labels |-> <<>>]
  /\ call = <<>> /\ buckets = <<>> /\ results = <<>> /\ pc = "project"
  /\ settings = <<>> /\ fragmentsRef = <<>> /\ originalVisible = TRUE /\ lastUpdate = <<>>
  /\ objects = <<>>

\* animate, lines 578-586: controls.update() takes the camera where the user
\* has dragged it, then calculate2DBboxes, lines 531-576.
Animate ==
  /\ pc = "project"
  /\ \E cam \in CamDistances :
       /\ view' = [view EXCEPT !.cam = cam]
       /\ IF ~view.showBBoxes2D \/ Len(view.scene) = 0 \/ batch.isGenerating
            THEN /\ boxes2D' = IF batch.isGenerating THEN boxes2D ELSE <<>>
                 /\ seen' = IF batch.isGenerating THEN seen ELSE [seen EXCEPT !.frame = <<>>]
            ELSE /\ boxes2D' = NewBoxes(view.scene, 1, cam)
                 /\ seen' = [seen EXCEPT !.frame = <<cam>>]
  /\ UNCHANGED <<batch, yoloLines, shatterVars, viewerVars>>

\* The 'YOLO 2D Boxes' check box, line 262.
ToggleBBoxes2D ==
  /\ pc = "project"
  /\ ~batch.isGenerating
  /\ view' = [view EXCEPT !.showBBoxes2D = ~view.showBBoxes2D]
  /\ UNCHANGED <<batch, boxes2D, yoloLines, seen, shatterVars, viewerVars>>

\* Every call of generateDataset starts a batch.
Busy_never(b) == FALSE
\* Line 274: a batch is running.
Busy(b) == b.isGenerating
\* generateDataset up to its first await, lines 274-304.  A call made while a
\* batch is running returns at once.  Otherwise the batch is marked as
\* running, the overlay is cleared, the control panel is disabled, the
\* archive is empty, and the first sample is set up: performReShatter makes a
\* new fragment set, the camera is moved if 'Random Viewpoint' is ticked.
StartBatch ==
  /\ pc = "project"
  /\ IF Busy(batch)
       THEN UNCHANGED projVars
       ELSE /\ \E n \in 1..BatchN, randomizeCamera \in BOOLEAN :
                 /\ batch' = BeginSample([IdleBatch EXCEPT !.isGenerating = TRUE,
                                                            !.guiEnabled = FALSE, !.n = n,
                                                            !.randomizeCamera = randomizeCamera], 0)
                 /\ \E scene \in Scenes, cam \in CamDistances :
                      view' = [view EXCEPT !.scene = scene,
                                           !.cam = IF randomizeCamera THEN cam ELSE @]
            /\ boxes2D' = <<>>
            /\ yoloLines' = <<>>
            /\ seen' = [frame |-> <<>>, labels |-> <<>>]
  /\ UNCHANGED <<shatterVars, viewerVars>>

\* loadRandomBackground, lines 202-211: the picture arrives, the promise is
\* resolved; generateDataset goes on with lines 305-320.
BackgroundLoaded ==
  /\ pc = "project"
  /\ batch.await = "background"
  /\ batch' = Rendered(batch)
  /\ UNCHANGED <<view, boxes2D, yoloLines, seen, shatterVars, viewerVars>>

\* loadRandomBackground, lines 212-213: the first load fails and its error
\* callback starts the second load.
BackgroundFailed ==
  /\ pc = "project"
  /\ batch.await = "background"
  /\ batch' = [batch EXCEPT !.await = "fallback"]
  /\ UNCHANGED <<view, boxes2D, yoloLines, seen, shatterVars, viewerVars>>

\* loadRandomBackground, lines 213-218: the second picture arrives.
FallbackLoaded ==
  /\ pc = "project"
  /\ batch.await = "fallback"
  /\ batch' = Rendered(batch)
  /\ UNCHANGED <<view, boxes2D, yoloLines, seen, shatterVars, viewerVars>>

\* loadRandomBackground, line 213: the second load fails too.  It was given no
\* error callback, so nothing resolves the promise generateDataset awaits.
FallbackFailed ==
  /\ pc = "project"
  /\ batch.await = "fallback"
  /\ batch' = [batch EXCEPT !.await = "never"]
  /\ UNCHANGED <<view, boxes2D, yoloLines, seen, shatterVars, viewerVars>>

\* The index under which a sample's two files are stored counts the
\* samples filed so far, not the samples tried.
FileIndex_count(b) == Cardinality(b.images)
\* Line 322: the files of a sample are named after its index i.
FileIndex(b) == b.i
\* i.toString(), line 322: the decimal digits of i.
RECURSIVE Digits(_)
Digits(i) == IF i < 10 THEN <<i>> ELSE Append(Digits(i \div 10), i % 10)
\* String.padStart(len, pad): pad is put in front until the length is len.
RECURSIVE PadStart(_, _, _)
PadStart(str, len, pad) ==
  IF Len(str) >= len THEN str ELSE PadStart(<<pad>> \o str, len, pad)
\* fileName, line 322: `sample_${i.toString().padStart(5, '0')}`.
FileName(i) == [stem |-> "sample_", digits |-> PadStart(Digits(i), 5, 0)]
\* The image is filed and no label file is.
Filed_nolabel(b) ==
  [b EXCEPT !.await = "pause",
            !.images = @ \cup {FileIndex(b)},
            !.log = @ \o <<Did("toBlob", b.i), Did("imageFile", b.i)>>]
\* Lines 321-359 when there is an image: it is filed under the sample's index,
\* the label file is computed and filed under the same index; then the pause.
Filed(b) ==
  [b EXCEPT !.await = "pause",
            !.images = @ \cup {FileIndex(b)},
            !.labels = @ \cup {FileIndex(b)},
            !.log = @ \o <<Did("toBlob", b.i), Did("imageFile", b.i),
                           Did("yoloLines", b.i), Did("labelFile", b.i)>>]
\* A sample without an image still gets its label file.
Skipped_labelled(b) ==
  [b EXCEPT !.await = "pause", !.failed = @ \cup {b.i}, !.labels = @ \cup {b.i},
            !.log = @ \o <<Did("toBlob", b.i), Did("labelFile", b.i)>>]
\* Lines 321 and 359 when toBlob gave null: nothing is filed; then the pause.
Skipped(b) ==
  [b EXCEPT !.await = "pause", !.failed = @ \cup {b.i},
            !.log = Append(@, Did("toBlob", b.i))]
\* The loop goes on as soon as the image was asked for.
SampleOver_noawait(b) == b.await \in {"capture", "pause"}
\* Line 359: the loop goes on when the pause after the sample is over.
SampleOver(b) == b.await = "pause"

\* Lines 320-359, from the image's arrival to the pause after the sample: if
\* there is an image it is filed under the sample's index, the label file is
\* computed from the fragments as they are projected then and filed under the
\* same index; if there is none, nothing is filed.
Capture ==
  /\ pc = "project"
  /\ batch.await = "capture"
  /\ \E imageBlob \in BOOLEAN :
       IF imageBlob
         THEN /\ yoloLines' = YoloLines(view.scene, 1, view.cam)
              /\ seen' = [seen EXCEPT !.labels = <<view.cam>>]
              /\ batch' = Filed(batch)
         ELSE /\ batch' = Skipped(batch)
              /\ UNCHANGED <<yoloLines, seen>>
  /\ UNCHANGED <<view, boxes2D, shatterVars, viewerVars>>

\* After the pause, lines 285-304 for the next sample.
NextSample ==
  /\ pc = "project"
  /\ SampleOver(batch) /\ batch.i + 1 < batch.n
  /\ batch' = BeginSample(batch, batch.i + 1)
  /\ \E scene \in Scenes, cam \in CamDistances :
       view' = [view EXCEPT !.scene = scene,
                            !.cam = IF batch.randomizeCamera THEN cam ELSE @]
  /\ boxes2D' = <<>>
  /\ yoloLines' = <<>>
  /\ seen' = [frame |-> <<>>, labels |-> <<>>]
  /\ UNCHANGED <<shatterVars, viewerVars>>

\* After the pause of the last sample, lines 362-364: the archive is being
\* compressed.
Compress ==
  /\ pc = "project"
  /\ SampleOver(batch) /\ batch.i + 1 >= batch.n
  /\ batch' = [batch EXCEPT !.await = "zip",
                            !.log = Append(@, Did("generateAsync", batch.i))]
  /\ UNCHANGED <<view, boxes2D, yoloLines, seen, shatterVars, viewerVars>>

\* Lines 365-374: the archive is handed over, the batch is over and the
\* control panel is usable again.  yoloLines keeps the last label file written.
FinishBatch ==
  /\ pc = "project"
  /\ batch.await = "zip"
  /\ batch' = [batch EXCEPT !.isGenerating = FALSE, !.guiEnabled = TRUE, !.await = "none",
                            !.log = Append(@, Did("download", batch.i))]
  /\ UNCHANGED <<view, boxes2D, yoloLines, seen, shatterVars, viewerVars>>

NextProject ==
  \/ Animate
  \/ ToggleBBoxes2D
  \/ StartBatch
  \/ BackgroundLoaded
  \/ BackgroundFailed
  \/ FallbackLoaded
  \/ FallbackFailed
  \/ Capture
  \/ NextSample
  \/ Compress
  \/ FinishBatch
SpecProject == InitProject /\ [][NextProject]_vars

\* The file effect, lines 605-611, while the fragments are on show or a batch
\* is running (the 'UPLOAD ASSET' input of App.tsx is not part of the control
\* panel that generateDataset disables): settings.current.reset() empties
\* fragmentsRef.current and the overlay, and the load of the file starts.
FileEffect ==
  /\ pc = "project"
  /\ \E file \in Files :
       IF Accepted(file)
         THEN /\ view' = [view EXCEPT !.scene = <<>>]
              /\ boxes2D' = <<>>
              /\ seen' = [seen EXCEPT !.frame = <<>>]
         ELSE UNCHANGED <<view, boxes2D, seen>>
  /\ UNCHANGED <<batch, yoloLines, shatterVars, viewerVars>>
NextUpload ==
  \/ NextProject
  \/ FileEffect
SpecUpload == InitProject /\ [][NextUpload]_vars

\* The same program when every pending callback is eventually called: each
\* loader.load ends in its load or its error event, toBlob calls back, the
\* 50 ms timer fires, and generateAsync resolves.
SpecProjectFair ==
  /\ SpecProject
  /\ WF_vars(BackgroundLoaded \/ BackgroundFailed)
  /\ WF_vars(FallbackLoaded \/ FallbackFailed)
  /\ WF_vars(Capture)
  /\ WF_vars(NextSample)
  /\ WF_vars(Compress)
  /\ WF_vars(FinishBatch)

\* ---------------------------------------------- properties of shatterMesh
TriangleCount == Len(call.mesh.geometry) \div 9
TriangleAt(positions, i) == SubSeq(positions, 9 * (i - 1) + 1, 9 * i)
CountIn(positions, t) ==
  Cardinality({ i \in 1..(Len(positions) \div 9) : TriangleAt(positions, i) = t })
RECURSIVE CountInBuckets(_, _)
CountInBuckets(t, s) ==
  IF s = 0 THEN 0 ELSE CountInBuckets(t, s - 1) + CountIn(buckets[s].positions, t)
RECURSIVE TotalBucketLen(_)
TotalBucketLen(s) ==
  IF s = 0 THEN 0 ELSE TotalBucketLen(s - 1) + Len(buckets[s].positions)
Partitioned == pc = "done" /\ call.mesh.geometry # NoPosition
CallSeeds == Seeds(ComputeBoundingBox(call.mesh.geometry), call.fragmentCount, call.rnd.seeds)
\* The seed a triangle belongs to by the rule of the specification: the lowest
\* index among the seeds at minimal squared distance from its centroid.
NearestSeed(i) ==
  LET c3 == TriangleCentroid3(call.mesh.geometry, i)
  IN  CHOOSE s \in 1..call.fragmentCount :
        /\ \A o \in 1..call.fragmentCount : DistSq9(c3, CallSeeds[s]) <= DistSq9(c3, CallSeeds[o])
        /\ \A o \in 1..(s - 1) : DistSq9(c3, CallSeeds[o]) > DistSq9(c3, CallSeeds[s])
\* The coordinates of the triangles of seed s, in mesh order, up to triangle i.
RECURSIVE AssignedPositions(_, _)
AssignedPositions(s, i) ==
  IF i = 0
    THEN <<>>
    ELSE AssignedPositions(s, i - 1) \o
           (IF NearestSeed(i) = s THEN TriangleAt(call.mesh.geometry, i) ELSE <<>>)
DistinctPoints(frag) == { frag.points[k] : k \in 1..Len(frag.points) }
FragmentsOf(s) ==
  { k \in 1..Len(results.fragments) : results.fragments[k].seedIndex = s }

\* C1 -- Partition coverage: after the assignment loop every source triangle
\* is in the buckets exactly as many times as it is in the mesh (so exactly
\* once per occurrence), and the buckets hold nothing else.
C1_Coverage ==
  Partitioned =>
    /\ DOMAIN buckets = 1..call.fragmentCount
    /\ TotalBucketLen(call.fragmentCount) = Len(call.mesh.geometry)
    /\ \A i \in 1..TriangleCount :
         LET t == TriangleAt(call.mesh.geometry, i)
         IN  CountInBuckets(t, call.fragmentCount) = CountIn(call.mesh.geometry, t)
    /\ \A s \in 1..call.fragmentCount : 3 * Len(buckets[s].points) = Len(buckets[s].positions)
\* C1 witness: a mesh of several triangles was spread over two non-empty buckets.
C1_Witness ==
  /\ Partitioned /\ call.fragmentCount >= 2 /\ TriangleCount >= 3
  /\ buckets[1].positions # <<>> /\ buckets[2].positions # <<>>

\* C2 -- Nearest seed: every triangle found in the bucket of seed s has s at
\* minimal squared centroid distance, and every seed of lower index is
\* strictly farther (ties go to the lowest index).
C2_NearestSeed ==
  Partitioned =>
    \A s \in 1..call.fragmentCount : \A j \in 1..(Len(buckets[s].positions) \div 9) :
      LET c3 == TriangleCentroid3(buckets[s].positions, j)
      IN  /\ \A o \in 1..call.fragmentCount :
                DistSq9(c3, CallSeeds[s]) <= DistSq9(c3, CallSeeds[o])
          /\ \A o \in 1..(s - 1) : DistSq9(c3, CallSeeds[o]) > DistSq9(c3, CallSeeds[s])
\* C2 witness: a triangle had two seeds at the same minimal distance.
C2_Witness ==
  /\ Partitioned /\ call.fragmentCount >= 2 /\ TriangleCount >= 1
  /\ \E i \in 1..TriangleCount :
       LET c3 == TriangleCentroid3(call.mesh.geometry, i)
       IN  /\ DistSq9(c3, CallSeeds[1]) = DistSq9(c3, CallSeeds[2])
           /\ \A o \in 1..call.fragmentCount :
                DistSq9(c3, CallSeeds[1]) <= DistSq9(c3, CallSeeds[o])

\* C3 -- Drop rule as claimed: a bucket with 3 or fewer distinct points yields
\* no Fragment.  (The code counts the pushed points, not the distinct ones.)
C3_DropRuleDistinct ==
  Partitioned =>
    \A s \in 1..call.fragmentCount :
      Cardinality(DistinctPoints(buckets[s])) <= 3 => FragmentsOf(s) = {}

\* C4 -- Hull-failure fallback: in solid mode no exception leaves shatterMesh;
\* a bucket that passes the drop rule and whose hull construction throws
\* yields one shell Fragment of its assigned triangles; every other bucket
\* yields exactly the Fragment it yields when no hull construction throws.
C4_HullFallback ==
  (Partitioned /\ call.makeSolid) =>
    /\ ~results.threw
    /\ \A s \in 1..call.fragmentCount :
         Len(buckets[s].points) >= 4 =>
           /\ Cardinality(FragmentsOf(s)) = 1
           /\ \A k \in FragmentsOf(s) :
                IF s \in call.rnd.hullThrows
                  THEN /\ results.fragments[k].mesh.geometry.kind = "shell"
                       /\ results.fragments[k].mesh.geometry.position = buckets[s].positions
                  ELSE LET clean == ShatterMesh(call.mesh, call.fragmentCount,
                                                call.volumeBounds, TRUE,
                                                [call.rnd EXCEPT !.hullThrows = {}]).fragments
                       IN  /\ results.fragments[k].mesh.geometry.kind = "hull"
                           /\ \E c \in 1..Len(clean) : clean[c] = results.fragments[k]
\* C4 witness: the hull of one bucket threw while another bucket got its hull.
C4_Witness ==
  /\ Partitioned /\ call.makeSolid /\ Len(results.fragments) = 2
  /\ \E s \in call.rnd.hullThrows : FragmentsOf(s) # {}
  /\ \E s \in (1..call.fragmentCount) \ call.rnd.hullThrows : FragmentsOf(s) # {}

\* C5 -- Shell mode: the position array of every Fragment is the sequence of
\* the coordinates of the triangles of its seed, in mesh order, unmodified.
C5_ShellExact ==
  (Partitioned /\ ~call.makeSolid) =>
    \A k \in 1..Len(results.fragments) :
      results.fragments[k].mesh.geometry.position =
        AssignedPositions(results.fragments[k].seedIndex, TriangleCount)
\* C5 witness: a shell fragment was built from a bucket that holds a repeated
\* point, while another triangle went elsewhere.
C5_Witness ==
  /\ Partitioned /\ ~call.makeSolid
  /\ \E k \in 1..Len(results.fragments) :
       LET pos == results.fragments[k].mesh.geometry.position
       IN  /\ Len(pos) >= 18 /\ Len(pos) < Len(call.mesh.geometry)
           /\ 3 * Cardinality(DistinctPoints(buckets[results.fragments[k].seedIndex]))
                < Len(pos)

\* C6 -- Unit direction as claimed: every Fragment's explosion direction is a
\* unit vector.  (Vector3.normalize leaves the zero vector as it is.)
C6_UnitDirection ==
  Partitioned => \A k \in 1..Len(results.fragments) : IsUnit(results.fragments[k].direction)

\* ------------------------------------------------- properties of the Viewer
\* x >= l * sqrt(n) and x <= u * sqrt(n), for integers x, l, u and n > 0.
GeRoot(x, l, n) ==
  IF l <= 0 THEN x >= 0 \/ x * x <= l * l * n
            ELSE x >= 0 /\ x * x >= l * l * n
LeRoot(x, u, n) == GeRoot(-x, -u, n)
\* Box3.containsPoint for a position p = lin/ForceDen + (coef/ForceDen) * dir.
InsideVolume(p, box) ==
  \A a \in 1..3 :
    /\ GeRoot(p.coef * p.dir.num[a], box.min[a] * ForceDen - p.lin[a], p.dir.den2)
    /\ LeRoot(p.coef * p.dir.num[a], box.max[a] * ForceDen - p.lin[a], p.dir.den2)
\* updateTransformations has been evaluated over a non-empty fragment set.
Evaluated == pc = "viewer" /\ lastUpdate # <<>> /\ fragmentsRef # <<>>

\* C7 -- Pose idempotence: after updateTransformations is evaluated at
\* force = 0, whatever rotForce and whichever of the two position modes, every
\* fragment's position is exactly originalPosition and its rotation exactly
\* originalRotation.
C7_PoseIdempotence ==
  (Evaluated /\ lastUpdate[1].force = 0) =>
    \A k \in 1..Len(fragmentsRef) :
      /\ fragmentsRef[k].mesh.position = fragmentsRef[k].originalPosition
      /\ fragmentsRef[k].mesh.rotation = fragmentsRef[k].originalRotation
      /\ fragmentsRef[k].mesh.quaternion = SetFromEuler(fragmentsRef[k].originalRotation)
\* The law evaluated at force 0 with a spin velocity, in the direction-based
\* mode, over fragments that do have somewhere to go and an axis to spin about.
C7_Witness ==
  /\ Evaluated /\ lastUpdate[1].force = 0 /\ lastUpdate[1].rotForce > 0
  /\ ~lastUpdate[1].useVolume
  /\ \A k \in 1..Len(fragmentsRef) :
       /\ fragmentsRef[k].direction.num # Zero3
       /\ fragmentsRef[k].rotationAxis.num # Zero3
       /\ fragmentsRef[k].targetVolumePosition # fragmentsRef[k].originalPosition

\* C8 -- Targets inside the volume as claimed: whenever updateTransformations
\* is evaluated with volume-targeting enabled, every fragment's
\* targetVolumePosition lies inside the ShatterVolume, and at force = 1 the
\* fragment is placed inside it.  (The target is fixed when the fragment is
\* built; the setting and the volume can change afterwards.)
C8_TargetInsideVolume ==
  (Evaluated /\ lastUpdate[1].useVolume) =>
    LET volume == SetFromCenterAndSize(Zero3, lastUpdate[1].volume)
    IN  \A k \in 1..Len(fragmentsRef) :
          /\ InsideVolume(fragmentsRef[k].targetVolumePosition, volume)
          /\ lastUpdate[1].force = ForceDen =>
               InsideVolume(fragmentsRef[k].mesh.position, volume)

\* --------------------------------------------- properties of the projection
\* The projected rectangle of a world box: the least and the greatest screen
\* coordinate among its eight projected corners.
ProjectedXs(box, cam) == { Project(Corners(box)[k], cam).x : k \in 1..8 }
ProjectedYs(box, cam) == { Project(Corners(box)[k], cam).y : k \in 1..8 }
Least(S) == CHOOSE a \in S : \A b \in S : FLe(a, b)
Greatest(S) == CHOOSE a \in S : \A b \in S : FLe(b, a)
OutsideOnX(box, cam) ==
  \/ FLt(FInt(1), Least(ProjectedXs(box, cam)))
  \/ FLt(Greatest(ProjectedXs(box, cam)), FInt(-1))
OutsideOnY(box, cam) ==
  \/ FLt(FInt(1), Least(ProjectedYs(box, cam)))
  \/ FLt(Greatest(ProjectedYs(box, cam)), FInt(-1))
EntirelyOutside(box, cam) == OutsideOnX(box, cam) \/ OutsideOnY(box, cam)
EntirelyInside(box, cam) ==
  /\ FLe(FInt(-1), Least(ProjectedXs(box, cam))) /\ FLe(Greatest(ProjectedXs(box, cam)), FInt(1))
  /\ FLe(FInt(-1), Least(ProjectedYs(box, cam))) /\ FLe(Greatest(ProjectedYs(box, cam)), FInt(1))
Straddles(box, cam) == ~EntirelyOutside(box, cam) /\ ~EntirelyInside(box, cam)
\* The overlay shows the boxes of a frame; a label file has been written.
FrameShown == pc = "project" /\ seen.frame # <<>>
LabelsWritten == pc = "project" /\ seen.labels # <<>>
HasBox(i) == \E k \in 1..Len(boxes2D) : boxes2D[k].label = i
HasLine(i) == \E k \in 1..Len(yoloLines) : yoloLines[k].frag = i

\* C9 -- Visibility gate: a fragment whose projected rectangle lies entirely
\* outside [-1,1] on either screen axis has no ProjectedBox in the overlay
\* computed by calculate2DBboxes and no line in the label file written by
\* generateDataset.
C9_VisibilityGate ==
  /\ FrameShown =>
       \A i \in 1..Len(view.scene) :
         EntirelyOutside(view.scene[i], seen.frame[1]) => ~HasBox(i - 1)
  /\ LabelsWritten =>
       \A i \in 1..Len(view.scene) :
         EntirelyOutside(view.scene[i], seen.labels[1]) => ~HasLine(i - 1)
\* An overlay frame and a label file over two fragments, the second one off
\* the screen on the y axis only and with its centre near enough to the screen
\* to pass the centre test: the first fragment has a box and a line, the
\* second has neither.
C9_Witness ==
  /\ FrameShown /\ LabelsWritten /\ Len(view.scene) = 2
  /\ \A cam \in {seen.frame[1], seen.labels[1]} :
       /\ OutsideOnY(view.scene[2], cam) /\ ~OutsideOnX(view.scene[2], cam)
       /\ ~CentreOffScreen(view.scene[2], cam)
  /\ HasBox(0) /\ ~HasBox(1) /\ HasLine(0) /\ ~HasLine(1)

\* C10 -- Projection clip law as claimed: every ProjectedBox the overlay
\* shows for a world box straddling the edge of the frustum lies within the
\* viewport: left >= 0, top >= 0, left + width <= viewport width and
\* top + height <= viewport height.
C10_ProjectionClip ==
  FrameShown =>
    \A k \in 1..Len(boxes2D) :
      Straddles(view.scene[boxes2D[k].label + 1], seen.frame[1]) =>
        /\ FLe(FInt(0), boxes2D[k].left)
        /\ FLe(FInt(0), boxes2D[k].top)
        /\ FLe(FAdd(boxes2D[k].left, boxes2D[k].width), FInt(Viewport.width))
        /\ FLe(FAdd(boxes2D[k].top, boxes2D[k].height), FInt(Viewport.height))

\* Part of the projected rectangle lies inside the visible range, and part of
\* it outside.
PartVisible(box, cam) ==
  /\ FLt(Least(ProjectedXs(box, cam)), FInt(1)) /\ FLt(FInt(-1), Greatest(ProjectedXs(box, cam)))
  /\ FLt(Least(ProjectedYs(box, cam)), FInt(1)) /\ FLt(FInt(-1), Greatest(ProjectedYs(box, cam)))
  /\ ~EntirelyInside(box, cam)

\* C11 -- Straddling boxes are kept, as claimed: every fragment whose projected
\* rectangle straddles the edge of the visible range with part of it inside
\* has a ProjectedBox in the overlay, wherever the centre of its world box
\* projects.  (calculate2DBboxes first drops every fragment whose centre
\* projects more than 1.2 off the middle of the screen.)
C11_StraddlingKept ==
  FrameShown =>
    \A i \in 1..Len(view.scene) :
      PartVisible(view.scene[i], seen.frame[1]) => HasBox(i - 1)

\* One, in millionths.
Million == 1000000
\* C12 as claimed -- YOLO values in range, to the digit: every line of a label
\* file has cx, cy, w, h in [0,1] with cx - w/2 >= 0, cx + w/2 <= 1,
\* cy - h/2 >= 0 and cy + h/2 <= 1 for the numbers the line carries.
C12_EdgesExact ==
  LabelsWritten =>
    \A k \in 1..Len(yoloLines) :
      LET l == yoloLines[k]
      IN  /\ 2 * l.cx - l.w >= 0 /\ 2 * l.cx + l.w <= 2 * Million
          /\ 2 * l.cy - l.h >= 0 /\ 2 * l.cy + l.h <= 2 * Million
\* C12 -- YOLO values in range: every line of a label file has cx, cy, w and h
\* in [0,1]; its edges cx - w/2, cx + w/2, cy - h/2, cy + h/2 are those of the
\* rectangle clipped to [0,1], each within half a millionth (the four numbers
\* are rounded to six decimals one by one).
C12_YoloInRange ==
  LabelsWritten =>
    \A k \in 1..Len(yoloLines) :
      LET l == yoloLines[k]
      IN  /\ \A v \in {l.cx, l.cy, l.w, l.h} : 0 <= v /\ v <= Million
          /\ 2 * l.cx - l.w >= -1 /\ 2 * l.cx + l.w <= 2 * Million + 1
          /\ 2 * l.cy - l.h >= -1 /\ 2 * l.cy + l.h <= 2 * Million + 1
\* A label file with a line for a fragment that straddles the edge of the
\* visible range: the clipping has acted.
C12_Witness ==
  /\ LabelsWritten
  /\ \E k \in 1..Len(yoloLines) :
       /\ PartVisible(view.scene[yoloLines[k].frag + 1], seen.labels[1])
       /\ yoloLines[k].w > 0 /\ yoloLines[k].h > 0

\* a / k for an integer k > 0.
FOver(a, k) == Frac(a.n, a.d * k)
\* The pixel rectangle of a world box in a width x height viewport, origin
\* at the top left and y downward: the projected rectangle mapped to pixels
\* and cut to the viewport.
PixelRectangle(box, cam, width, height) ==
  LET left   == FTimes(FHalf(FAdd(Least(ProjectedXs(box, cam)), FInt(1))), width)
      right  == FTimes(FHalf(FAdd(Greatest(ProjectedXs(box, cam)), FInt(1))), width)
      top    == FTimes(FHalf(FSub(FInt(1), Greatest(ProjectedYs(box, cam)))), height)
      bottom == FTimes(FHalf(FSub(FInt(1), Least(ProjectedYs(box, cam)))), height)
      l      == FMax(FInt(0), left)
      r      == FMin(FInt(width), right)
      t      == FMax(FInt(0), top)
      b      == FMin(FInt(height), bottom)
  IN  [left |-> l, top |-> t, width |-> FSub(r, l), height |-> FSub(b, t)]
\* The YOLO record of a pixel rectangle, in millionths.
Normalized(rect, width, height) ==
  [cx |-> ToFixed6(FOver(FAdd(rect.left, FHalf(rect.width)), width)),
   cy |-> ToFixed6(FOver(FAdd(rect.top, FHalf(rect.height)), height)),
   w  |-> ToFixed6(FOver(rect.width, width)),
   h  |-> ToFixed6(FOver(rect.height, height))]
\* A world box that projects, from a distance of 40, onto the pixel rectangle
\* left = 100, top = 50, width = 200, height = 150 of a 1000 x 800 viewport.
ExampleBox == [empty |-> FALSE, min |-> <<-32, 20, 0>>, max |-> <<-16, 35, 0>>]

\* C13 -- Label normalization: every line of a label file is
\* (left + width/2)/W, (top + height/2)/H, width/W, height/H of the fragment's
\* pixel rectangle (top-left origin, y downward), whatever the viewport; and
\* the pixel rectangle 100, 50, 200, 150 of a 1000 x 800 viewport gives
\* cx = 0.2, cy = 0.15625, w = 0.2, h = 0.1875.
C13_LabelNormalization ==
  /\ LabelsWritten =>
       \A k \in 1..Len(yoloLines) :
         LET l   == yoloLines[k]
             box == view.scene[l.frag + 1]
         IN  \A vp \in {Viewport, [width |-> 1000, height |-> 800]} :
               [cx |-> l.cx, cy |-> l.cy, w |-> l.w, h |-> l.h]
                 = Normalized(PixelRectangle(box, seen.labels[1], vp.width, vp.height),
                              vp.width, vp.height)
  /\ OverlayBox(ExampleBox, 0, 40, 1000, 800)
       = <<[left |-> FInt(100), top |-> FInt(50), width |-> FInt(200),
            height |-> FInt(150), label |-> 0]>>
  /\ YoloLine(ExampleBox, 0, 40)
       = <<[class |-> 0, cx |-> 200000, cy |-> 156250, w |-> 200000, h |-> 187500,
            frag |-> 0]>>
\* A label file with a line for a fragment above or below the middle of the
\* screen and cut by the edge of the visible range.
C13_Witness ==
  /\ LabelsWritten
  /\ \E k \in 1..Len(yoloLines) :
       /\ PartVisible(view.scene[yoloLines[k].frag + 1], seen.labels[1])
       /\ yoloLines[k].cy # 500000 /\ yoloLines[k].h > 0 /\ yoloLines[k].h < Million

\* ------------------------------------------------ properties of the batch
\* The places of the batch's record where a step was done for sample i.
At(step, i) == { p \in 1..Len(batch.log) : batch.log[p] = Did(step, i) }
\* In the batch's record, every s1 of sample i is before every s2 of sample j.
Precedes(s1, i, s2, j) == \A p \in At(s1, i), q \in At(s2, j) : p < q
Samples == 0..(batch.n - 1)
\* FINALIZE has been reached: the archive is being compressed or was handed over.
Finalized == At("generateAsync", batch.n - 1) # {}
Idle == ~batch.isGenerating /\ batch.guiEnabled

\* C14 -- Batch count: once a batch of N samples is at FINALIZE, its archive
\* holds one image and one label file for each of the N indices except those
\* whose capture failed, so N entries less the skipped ones; and an index is
\* in the archive exactly when its capture succeeded, so that a skipped
\* sample is told from a successful one by its index being absent.
C14_BatchCount ==
  Finalized =>
    /\ batch.images = Samples \ batch.failed
    /\ batch.labels = batch.images
    /\ Cardinality(batch.images) = batch.n - Cardinality(batch.failed)
    /\ \A i \in Samples : (i \in batch.images) <=> (i \notin batch.failed)
\* A finished batch of two samples whose first capture failed and whose
\* second succeeded.
C14_Witness ==
  /\ Idle /\ Finalized
  /\ batch.n = 2 /\ batch.failed = {0} /\ batch.images = {1}

\* C15 -- Cancellation: at the top of a sample iteration with samples still
\* to do, the batch can go straight to FINALIZE with what it has collected.
C15_CancelAtIterationTop ==
  (batch.isGenerating /\ SampleOver(batch) /\ batch.i + 1 < batch.n) => ENABLED Compress

\* C16 -- Background failure never stalls the batch: whenever a sample waits
\* for its background, from the first load or from the fallback load, the
\* sample is eventually rendered and captured, and the batch eventually
\* reaches FINALIZE.
C16_BackgroundNeverStalls ==
  /\ (batch.await \in {"background", "fallback"}) ~> (batch.await = "capture")
  /\ (batch.await \in {"background", "fallback"}) ~> Finalized

C18_Sequential ==
  \A i \in Samples :
    At("performReShatter", i + 1) # {} =>
      /\ At("toBlob", i) # {}
      /\ Precedes("toBlob", i, "performReShatter", i + 1)
      /\ i \notin batch.failed =>
           /\ At("yoloLines", i) # {} /\ At("labelFile", i) # {}
           /\ Precedes("yoloLines", i, "performReShatter", i + 1)
           /\ Precedes("labelFile", i, "performReShatter", i + 1)
      /\ \A p \in 1..Len(batch.log), q \in 1..Len(batch.log) :
           (batch.log[p].i = i /\ batch.log[q].i = i + 1) => p < q
\* The second sample of a batch has begun after a first sample with an image.
C18_Witness ==
  /\ At("performReShatter", 1) # {} /\ 0 \in batch.images
  /\ batch.isGenerating

\* The steps of sample i are in the order of the state machine.
InOrder(i) ==
  /\ Precedes("performReShatter", i, "camera", i)
  /\ Precedes("performReShatter", i, "loadRandomBackground", i)
  /\ Precedes("camera", i, "loadRandomBackground", i)
  /\ Precedes("loadRandomBackground", i, "background", i)
  /\ Precedes("background", i, "toBlob", i)
  /\ Precedes("toBlob", i, "yoloLines", i)
  /\ Precedes("yoloLines", i, "labelFile", i)
  /\ At("performReShatter", i) # {} => (batch.randomizeCamera <=> At("camera", i) # {})
  /\ \A step \in {"performReShatter", "camera", "loadRandomBackground", "background",
                  "toBlob", "yoloLines", "labelFile"} : Cardinality(At(step, i)) <= 1
\* C19 -- Batch state machine: the steps of every sample are in the order
\* RESHATTER, camera (when enabled), environment, capture, labels, append;
\* FINALIZE is run once, after the last sample, and not before; and every
\* started batch eventually is idle again, the control panel usable.
C19_BatchStateMachine ==
  /\ [](\A i \in Samples : InOrder(i))
  /\ [](/\ Cardinality({ p \in 1..Len(batch.log) : batch.log[p].step = "generateAsync" }) <= 1
        /\ Finalized => \A i \in Samples : At("toBlob", i) # {}
        /\ Idle /\ batch.n > 0 => Finalized)
  /\ batch.isGenerating ~> Idle

\* ---------------------------------------------- properties of re-shattering
RangeOf(q) == { q[k] : k \in 1..Len(q) }
EventsAt(op, id) ==
  { p \in 1..Len(objects.events) : objects.events[p] = [op |-> op, id |-> id] }
BuildEvents == { p \in 1..Len(objects.events) : objects.events[p].op = "build" }
\* C20 -- RESHATTER discards the previous fragment set: when performReShatter
\* has run, no fragment of the set it found is in fragmentsRef.current or in
\* fragmentGroup, the geometry of each of them was disposed of before any new
\* fragment was built, and the new set is exactly the meshes built by this
\* run, which are also the children of fragmentGroup.
C20_ReshatterDiscards ==
  /\ pc = "viewer" => Len(objects.ids) = Len(fragmentsRef)
  /\ (pc = "viewer" /\ objects.handler = "performReShatter") =>
       /\ \A id \in RangeOf(objects.previous) :
            /\ id \notin RangeOf(objects.ids)
            /\ id \notin RangeOf(objects.group)
            /\ EventsAt("dispose", id) # {}
            /\ \A p \in EventsAt("dispose", id), q \in BuildEvents : p < q
       /\ \A id \in RangeOf(objects.ids) :
            /\ EventsAt("build", id) # {}
            /\ id.shatter = objects.shatters
       /\ objects.group = objects.ids
       /\ Cardinality(RangeOf(objects.ids)) = Len(objects.ids)
\* performReShatter has replaced a set of fragments by a new one.
C20_Witness ==
  /\ pc = "viewer" /\ objects.handler = "performReShatter"
  /\ objects.previous # <<>> /\ objects.ids # <<>>

\* ------------------------------------------- more properties of shatterMesh
\* C22 -- End to end: the twelve-triangle cube shattered in three in solid
\* mode gives, wherever the three seeds fall and whether or not a hull fails,
\* no error and between one and three fragments, each with a non-empty
\* position array and its bounding box computed from it.
C22_CubeInThree ==
  (pc = "done" /\ call.mesh.geometry = Cube /\ call.fragmentCount = 3 /\ call.makeSolid) =>
    /\ ~results.threw
    /\ Len(results.fragments) \in 1..3
    /\ \A k \in 1..Len(results.fragments) :
         LET geometry == results.fragments[k].mesh.geometry
         IN  /\ geometry.position # <<>>
             /\ ~geometry.boundingBox.empty
             /\ geometry.boundingBox = ComputeBoundingBox(geometry.position)
\* The cube was split in three fragments, and in another call in fewer.
C22_Witness ==
  /\ pc = "done" /\ call.mesh.geometry = Cube /\ call.fragmentCount = 3 /\ call.makeSolid
  /\ Len(results.fragments) = 3
  /\ \E k \in 1..3 : results.fragments[k].mesh.geometry.kind = "hull"

\* C23 -- Empty input: a mesh without position data, or with a position
\* array of no triangle, gives the empty list and no error, whatever the
\* fragment count, the mode and the volume.
C23_EmptyInput ==
  (pc = "done" /\ (call.mesh.geometry = NoPosition \/ call.mesh.geometry = <<>>)) =>
    /\ ~results.threw
    /\ results.fragments = <<>>
\* A call in solid mode on a mesh of no triangle, asked for several fragments.
C23_Witness ==
  /\ pc = "done" /\ call.mesh.geometry = <<>> /\ call.fragmentCount >= 2 /\ call.makeSolid
  /\ buckets = [s \in 1..call.fragmentCount |-> [positions |-> <<>>, points |-> <<>>]]

\* C27 -- No effect on the input: a call writes to none of the objects it
\* was handed (the mesh, its geometry, material, position, rotation, scale),
\* the arguments are after the call what they were before it, and what a
\* fragment has of the mesh is a copy of its position, rotation and scale.
C27_InputUntouched ==
  /\ pc = "done" =>
       /\ results.written \cap InputObjects = {}
       /\ \A k \in 1..Len(results.fragments) :
            /\ results.fragments[k].originalPosition = Pos(call.mesh.position)
            /\ results.fragments[k].originalRotation = call.mesh.rotation
            /\ results.fragments[k].mesh.scale = call.mesh.scale
  /\ pc \in {"start", "done"} =>
       \E g \in Geometries \cup {NoPosition, Cube} : call.mesh = SourceMesh(g)
\* A call that built fragments and disposed of its working geometries.
C27_Witness ==
  /\ pc = "done" /\ results.fragments # <<>>
  /\ [made |-> "clone", of |-> "mesh.geometry"] \in results.written

\* How many times `events` has geometry.dispose() on fragment id.
Disposes(events, id) ==
  Cardinality({ p \in 1..Len(events) : events[p] = [op |-> "dispose", id |-> id] })
\* A step that runs the cleanup of the mount effect.
Unmounting == pc = "viewer" /\ pc' = "unmounted"
\* C21 -- Geometry ownership: in every step of a run of shatters, re-shatters,
\* resets, uploads and the unmount, the geometry of every fragment that leaves
\* the active set, and of every fragment still active when the component is
\* unmounted, is disposed of exactly once by that step, and a step disposes of
\* the geometry of active fragments only (so never of one released before).
C21_ReleasedOnce ==
  [][ /\ \A id \in RangeOf(objects.ids) \ RangeOf(objects'.ids) :
           Disposes(objects'.events, id) = 1
      /\ objects' # objects =>
           \A p \in 1..Len(objects'.events) :
              objects'.events[p].op = "dispose" => objects'.events[p].id \in RangeOf(objects.ids)
      /\ Unmounting => \A id \in RangeOf(objects.ids) : Disposes(objects'.events, id) = 1
    ]_vars

\* C28 -- After any sequence of uploads, shatters, re-shatters and resets the
\* original model is hidden exactly when the shattered flag is set and
\* fragmentsRef.current is not empty.
C28_HiddenIffShattered ==
  ~originalVisible <=> (settings.shattered /\ fragmentsRef # <<>>)

\* C30 -- Model upload: once every load that was started has completed, in
\* whatever order, originalGroup holds the model of the most recent accepted
\* upload and no other, and the active fragments were made from that model
\* only.
C30_OnlyLatestModel ==
  objects.loads = {} =>
    /\ \A k \in 1..Len(objects.original) : objects.original[k].upload = objects.uploads
    /\ Len(objects.original) <= 1
    /\ \A k \in 1..Len(objects.from) : objects.from[k].upload = objects.uploads

\* C25 -- Rebuild is atomic for consumers: in every state an animation frame
\* or a label computation can run in, that is between two handlers of the
\* Viewer, no fragment of fragmentsRef.current had its geometry disposed of,
\* every one of them is a child of fragmentGroup (and fragmentGroup has no
\* other child), and every one is at the position updateTransformations gives
\* it for the force and the volume mode of the last evaluation.
C25_AtomicRebuild ==
  pc = "viewer" =>
    /\ Len(objects.ids) = Len(fragmentsRef)
    /\ \A k \in 1..Len(objects.ids) : Disposes(objects.events, objects.ids[k]) = 0
    /\ objects.group = objects.ids
    /\ fragmentsRef # <<>> =>
         /\ lastUpdate # <<>>
         /\ \A k \in 1..Len(fragmentsRef) :
              fragmentsRef[k].mesh.position =
                PosedPosition(fragmentsRef[k], lastUpdate[1].force, lastUpdate[1].useVolume)
\* A re-shatter has replaced a set by a new one, which is posed away from
\* where shatterMesh built it.
C25_Witness ==
  /\ pc = "viewer" /\ objects.handler = "performReShatter"
  /\ objects.previous # <<>> /\ fragmentsRef # <<>>
  /\ \E k \in 1..Len(fragmentsRef) : fragmentsRef[k].mesh.position # fragmentsRef[k].originalPosition

\* Sequence p is a prefix of sequence q.
IsPrefix(p, q) == Len(p) <= Len(q) /\ \A k \in 1..Len(p) : p[k] = q[k]
\* C29 -- At most one batch is active at a time: isGenerating is set exactly
\* from the start of a batch (its first step is logged) until its download
\* (FINALIZE) is done, and while it is set the only thing that happens to the
\* batch is that its own steps go on: its sample count and camera mode stay,
\* its archive and its log only grow, so a call of generateDataset made
\* meanwhile starts nothing and changes nothing.
C29_OneBatch ==
  /\ [](pc = "project" =>
          /\ batch.isGenerating <=>
               (batch.log # <<>> /\ batch.log[Len(batch.log)].step # "download")
          /\ batch.isGenerating <=> batch.await # "none")
  /\ [][(pc = "project" /\ batch.isGenerating) =>
          /\ batch'.n = batch.n /\ batch'.randomizeCamera = batch.randomizeCamera
          /\ IsPrefix(batch.log, batch'.log)
          /\ batch.images \subseteq batch'.images /\ batch.labels \subseteq batch'.labels
          /\ batch'.i \in {batch.i, batch.i + 1}]_vars
\* A batch is at its second sample, waiting for the image, and generateDataset
\* can be called.
C29_Witness ==
  /\ pc = "project" /\ batch.isGenerating /\ batch.i = 1 /\ batch.await = "capture"
  /\ ENABLED StartBatch

\* The files of the two folders of the archive, lines 323 and 356.
ImageFiles == { [folder |-> "images", name |-> FileName(i), ext |-> "png"] : i \in batch.images }
LabelFiles == { [folder |-> "labels", name |-> FileName(i), ext |-> "txt"] : i \in batch.labels }
\* The number a sequence of decimal digits stands for.
RECURSIVE Value(_)
Value(digits) ==
  IF digits = <<>> THEN 0
  ELSE 10 * Value(SubSeq(digits, 1, Len(digits) - 1)) + digits[Len(digits)]
\* The fragments of the scene whose projected rectangle meets the visible range.
WithBox(scene, cam) ==
  { k \in 1..Len(scene) : LabelVisible(ProjectedExtent(scene[k], cam)) }
\* C26 -- Dataset artifacts are paired and named by sample index: for every
\* index i below N the archive holds images/sample_<i on 5 digits>.png exactly
\* when it holds labels/sample_<i on 5 digits>.txt (at FINALIZE as at any
\* other time), a file's 5 digits read as the index of its sample, and the
\* label file written for a sample has exactly one line for each fragment
\* with a projected box, in the order of the fragments.
C26_PairedArtifacts ==
  /\ [](pc = "project" =>
          /\ \A i \in 0..(batch.n - 1) :
               [folder |-> "images", name |-> FileName(i), ext |-> "png"] \in ImageFiles
                 <=> [folder |-> "labels", name |-> FileName(i), ext |-> "txt"] \in LabelFiles
          /\ \A f \in ImageFiles \cup LabelFiles :
               Len(f.name.digits) = 5 /\ Value(f.name.digits) \in 0..(batch.n - 1)
          /\ Cardinality(ImageFiles) = Cardinality(batch.images)
          /\ Cardinality(LabelFiles) = Cardinality(batch.labels))
  /\ [][(pc = "project" /\ batch'.labels \ batch.labels # {}) =>
          /\ Len(yoloLines') = Cardinality(WithBox(view.scene, view.cam))
          /\ \A k \in WithBox(view.scene, view.cam) :
               \E p \in 1..Len(yoloLines') : yoloLines'[p].frag = k - 1
          /\ \A p, q \in 1..Len(yoloLines') :
               p < q => yoloLines'[p].frag < yoloLines'[q].frag]_vars
\* A batch of two samples is at FINALIZE with both samples filed, and the
\* last label file has a line for one of the two fragments and none for the
\* other.
C26_Witness ==
  /\ pc = "project" /\ Finalized /\ batch.n = 2 /\ batch.images = {0, 1}
  /\ Len(view.scene) = 2 /\ Len(yoloLines) = 1

\* C24 -- Labels of a sample are computed from the fragment set its own
\* RESHATTER built: while a batch waits for the background picture or for the
\* image of the canvas, that is between the sample's RESHATTER and its
\* COMPUTE_LABELS, no step changes or empties the active fragment set.
C24_LabelsFromOwnSet ==
  [][(pc = "project" /\ batch.isGenerating
        /\ batch.await \in {"background", "fallback", "capture"}) =>
       view'.scene = view.scene]_vars
====
